---- MODULE Spec2Model ----
(***************************************************************************)
(* Session orchestration of the security detection game.                   *)
(*                                                                         *)
(* The reducer of hooks/useGameState.ts is modelled as one operator per    *)
(* action type, folding an event over the GameState record.  The handlers  *)
(* and effects of App.tsx are the actions of the state machine: a handler  *)
(* runs to its first await as one step and the continuation after an      *)
(* await is a later step.  The effects of a committed render are deferred: *)
(* they run as a step of their own, or, when another event is handled      *)
(* first, after that event's dispatches and before the next render.        *)
(***************************************************************************)
EXTENDS Integers, Sequences, FiniteSets, TLC

\* ------------------------------------------------------------------ bounds
\* longest batch the Snippet Generator answers with
MaxTasks == 2
\* Snippet Generator requests issued in one behaviour
MaxRequests == 2
\* Snippet Generator requests issued in one behaviour of prompt play
MaxPromptRequests == 4
\* generator requests of a session under the fair scheduling
MaxFairRequests == 1

\* tasks in one request to the audit, when the fallback is examined
MaxAudited == 2
\* findings in a report of the remote Scanner, when the report view is
\* examined
MaxFindings == 3

\* ------------------------------------------------------------------ types
Undefined == "undefined"

Difficulties == {"EASY", "MEDIUM", "HARD"}

Answers == {"safe", "vulnerable"}

Factors(t, c, n) ==
  [affectsTimer |-> t, affectsComplexity |-> c, affectsTaskCount |-> n]

\* selections the player makes on the mission-parameters screen
DifficultyChoices == {"HARD"}

FactorChoices == {Factors(TRUE, FALSE, FALSE), Factors(FALSE, FALSE, FALSE)}

\* every selection the screen offers
AllFactors == {Factors(t, c, n) : t \in BOOLEAN, c \in BOOLEAN, n \in BOOLEAN}

LanguageChoices == {"python"}

NoReport == [defined |-> FALSE, source |-> "none", audioUrl |-> FALSE]

\* ------------------------------------------------------------------ config
factorCount(factors) ==
  (IF factors.affectsTimer THEN 1 ELSE 0)
  + (IF factors.affectsComplexity THEN 1 ELSE 0)
  + (IF factors.affectsTaskCount THEN 1 ELSE 0)

\* Math.floor(x * 1.5) and Math.floor(x * 0.7) on the bases 15, 30, 45
FloorTimes15(x) == (x * 3) \div 2

\* x * 0.7 rounded to the nearest integer instead of floored
FloorTimes07_RoundsToNearest(x) == (x * 7 + 5) \div 10

FloorTimes07(x) == (x * 7) \div 10

baseTimePerTask(factors) ==
  IF factorCount(factors) = 1 THEN 15
  ELSE IF factorCount(factors) = 2 THEN 30
  ELSE 45

configTimePerTask(difficulty, factors) ==
  IF factors.affectsTimer
  THEN IF difficulty = "EASY" THEN FloorTimes15(baseTimePerTask(factors))
       ELSE IF difficulty = "HARD" THEN FloorTimes07(baseTimePerTask(factors))
       ELSE baseTimePerTask(factors)
  ELSE baseTimePerTask(factors)

\* Math.floor(Math.random() * 2)
Randoms == {0, 1}

\* the task count follows the difficulty whether or not the task-count factor
\* is active
configTaskCount_IgnoresFactor(difficulty, factors, random) ==
  IF difficulty = "EASY" THEN 3 + random
  ELSE IF difficulty = "HARD" THEN 6 + random
  ELSE 5

configTaskCount(difficulty, factors, random) ==
  IF factors.affectsTaskCount
  THEN IF difficulty = "EASY" THEN 3 + random
       ELSE IF difficulty = "HARD" THEN 6 + random
       ELSE 5
  ELSE 5

configComplexityLevel(difficulty, factors) ==
  IF factors.affectsComplexity
  THEN IF difficulty = "EASY" THEN "basic"
       ELSE IF difficulty = "HARD" THEN "advanced"
       ELSE "intermediate"
  ELSE "basic"

calculateGameConfig(difficulty, factors, random) ==
  [taskCount |-> configTaskCount(difficulty, factors, random),
   timePerTask |-> configTimePerTask(difficulty, factors),
   complexityLevel |-> configComplexityLevel(difficulty, factors)]

\* ------------------------------------------------------------------ reducer
initialState ==
  [phase |-> "IDLE",
   difficulty |-> "MEDIUM",
   difficultyFactors |-> Factors(TRUE, TRUE, FALSE),
   language |-> "javascript",
   tasks |-> <<>>,
   currentTaskIndex |-> 0,
   timePerTask |-> 30,
   timeRemaining |-> 30,
   score |-> 0,
   totalCorrect |-> 0,
   totalIncorrect |-> 0,
   gameOverReason |-> Undefined,
   auditReport |-> NoReport,
   endlessMode |-> FALSE]

\* state.tasks[state.currentTaskIndex] is defined (indices are 0-based in
\* the source, sequences 1-based here)
HasCurrent(s) == s.currentTaskIndex < Len(s.tasks)

CurrentTask(s) == s.tasks[s.currentTaskIndex + 1]

IsCorrect(task, answer) ==
  \/ answer = "vulnerable" /\ task.isVulnerable
  \/ answer = "safe" /\ ~task.isVulnerable

\* SET_DIFFICULTY that leaves the running countdown as it is
SET_DIFFICULTY_KeepsRemaining(s, difficulty, factors) ==
  [s EXCEPT !.difficulty = difficulty,
            !.difficultyFactors = factors,
            !.timePerTask =
              calculateGameConfig(difficulty, factors, 0).timePerTask]

SET_DIFFICULTY(s, difficulty, factors) ==
  [s EXCEPT !.difficulty = difficulty,
            !.difficultyFactors = factors,
            !.timePerTask =
              calculateGameConfig(difficulty, factors, 0).timePerTask,
            !.timeRemaining =
              calculateGameConfig(difficulty, factors, 0).timePerTask]

SET_LANGUAGE(s, language) == [s EXCEPT !.language = language]

SET_ENDLESS_MODE(s, on) == [s EXCEPT !.endlessMode = on]

\* START_LOADING that keeps the score and the totals of the round before
START_LOADING_KeepsScore(s) ==
  [s EXCEPT !.phase = "LOADING",
            !.tasks = <<>>,
            !.currentTaskIndex = 0,
            !.gameOverReason = Undefined,
            !.auditReport = NoReport]

START_LOADING(s) ==
  [s EXCEPT !.phase = "LOADING",
            !.tasks = <<>>,
            !.currentTaskIndex = 0,
            !.score = 0,
            !.totalCorrect = 0,
            !.totalIncorrect = 0,
            !.gameOverReason = Undefined,
            !.auditReport = NoReport]

LOAD_TASKS(s, payload) ==
  [s EXCEPT !.tasks = [i \in DOMAIN payload |->
                         [payload[i] EXCEPT
                            !.status = IF i = 1 THEN "current" ELSE "pending"]],
            !.timeRemaining = s.timePerTask]

START_PLAYING(s) ==
  [s EXCEPT !.phase = "PLAYING", !.timeRemaining = s.timePerTask]

IsLastTask(s) == s.currentTaskIndex >= Len(s.tasks) - 1

\* the false accusation: the task fails and the round ends, nothing is scored
falseAccusation(s, answer) ==
  [s EXCEPT !.tasks[s.currentTaskIndex + 1].status = "failed",
            !.tasks[s.currentTaskIndex + 1].userAnswer = answer,
            !.totalIncorrect = @ + 1,
            !.gameOverReason = "wrong_answer",
            !.phase = "AUDITING"]

\* scoreAnswer that awards the 100 points whatever the answer
scoreAnswer_AwardsAnyAnswer(s, answer) ==
  LET idx == s.currentTaskIndex + 1
      isCorrect == IsCorrect(s.tasks[idx], answer)
      updatedTasks ==
        [i \in DOMAIN s.tasks |->
           IF i = idx
           THEN [s.tasks[i] EXCEPT
                   !.status = IF isCorrect THEN "completed" ELSE "failed",
                   !.userAnswer = answer]
           ELSE IF i = idx + 1
           THEN [s.tasks[i] EXCEPT !.status = "current"]
           ELSE s.tasks[i]]
  IN [s EXCEPT !.tasks = updatedTasks,
               !.score = @ + 100,
               !.totalCorrect = IF isCorrect THEN @ + 1 ELSE @,
               !.totalIncorrect = IF isCorrect THEN @ ELSE @ + 1]

\* any other answer: the task is marked, the next one becomes current, the
\* score and the totals are updated
scoreAnswer(s, answer) ==
  LET idx == s.currentTaskIndex + 1
      isCorrect == IsCorrect(s.tasks[idx], answer)
      updatedTasks ==
        [i \in DOMAIN s.tasks |->
           IF i = idx
           THEN [s.tasks[i] EXCEPT
                   !.status = IF isCorrect THEN "completed" ELSE "failed",
                   !.userAnswer = answer]
           ELSE IF i = idx + 1
           THEN [s.tasks[i] EXCEPT !.status = "current"]
           ELSE s.tasks[i]]
  IN [s EXCEPT !.tasks = updatedTasks,
               !.score = IF isCorrect THEN @ + 100 ELSE @,
               !.totalCorrect = IF isCorrect THEN @ + 1 ELSE @,
               !.totalIncorrect = IF isCorrect THEN @ ELSE @ + 1]

\* ANSWER_TASK without the false-accusation branch: 'vulnerable' on a safe
\* task is an ordinary wrong answer
ANSWER_TASK_NoLockdown(s, answer) ==
  IF ~HasCurrent(s) THEN s
  ELSE IF IsLastTask(s)
  THEN [scoreAnswer(s, answer) EXCEPT !.gameOverReason = "completed",
                                      !.phase = "AUDITING"]
  ELSE [scoreAnswer(s, answer) EXCEPT !.currentTaskIndex = @ + 1,
                                      !.timeRemaining = s.timePerTask]

\* ANSWER_TASK that awards the 100 points to a false accusation as well
ANSWER_TASK_ScoresAccusation(s, answer) ==
  IF ~HasCurrent(s) THEN s
  ELSE IF answer = "vulnerable" /\ ~CurrentTask(s).isVulnerable
  THEN [falseAccusation(s, answer) EXCEPT !.score = @ + 100]
  ELSE IF IsLastTask(s)
  THEN [scoreAnswer(s, answer) EXCEPT !.gameOverReason = "completed",
                                      !.phase = "AUDITING"]
  ELSE [scoreAnswer(s, answer) EXCEPT !.currentTaskIndex = @ + 1,
                                      !.timeRemaining = s.timePerTask]

\* ANSWER_TASK that lets the countdown run on when it advances
ANSWER_TASK_KeepsCountdown(s, answer) ==
  IF ~HasCurrent(s) THEN s
  ELSE IF answer = "vulnerable" /\ ~CurrentTask(s).isVulnerable
  THEN falseAccusation(s, answer)
  ELSE IF IsLastTask(s)
  THEN [scoreAnswer(s, answer) EXCEPT !.gameOverReason = "completed",
                                      !.phase = "AUDITING"]
  ELSE [scoreAnswer(s, answer) EXCEPT !.currentTaskIndex = @ + 1]

ANSWER_TASK(s, answer) ==
  IF ~HasCurrent(s) THEN s
  ELSE IF answer = "vulnerable" /\ ~CurrentTask(s).isVulnerable
  THEN falseAccusation(s, answer)
  ELSE IF IsLastTask(s)
  THEN [scoreAnswer(s, answer) EXCEPT !.gameOverReason = "completed",
                                      !.phase = "AUDITING"]
  ELSE [scoreAnswer(s, answer) EXCEPT !.currentTaskIndex = @ + 1,
                                      !.timeRemaining = s.timePerTask]

\* TICK_TIMER that stops at 1
TICK_TIMER_StopsAtOne(s) ==
  IF s.timeRemaining <= 1
  THEN s
  ELSE [s EXCEPT !.timeRemaining = @ - 1]

TICK_TIMER(s) ==
  IF s.timeRemaining <= 1
  THEN [s EXCEPT !.timeRemaining = 0]
  ELSE [s EXCEPT !.timeRemaining = @ - 1]

\* TIME_UP that fails every task of the batch
TIME_UP_FailsEveryTask(s) ==
  [s EXCEPT !.tasks = [i \in DOMAIN s.tasks |->
                         [s.tasks[i] EXCEPT !.status = "failed"]],
            !.gameOverReason = "timeout",
            !.phase = "AUDITING"]

TIME_UP(s) ==
  [s EXCEPT !.tasks = [i \in DOMAIN s.tasks |->
                         IF i = s.currentTaskIndex + 1
                         THEN [s.tasks[i] EXCEPT !.status = "failed"]
                         ELSE s.tasks[i]],
            !.gameOverReason = "timeout",
            !.phase = "AUDITING"]

GAME_OVER(s, reason) ==
  [s EXCEPT !.gameOverReason = reason, !.phase = "AUDITING"]

START_AUDITING(s) == [s EXCEPT !.phase = "AUDITING"]

SET_AUDIT_REPORT(s, report) == [s EXCEPT !.auditReport = report]

START_DEBRIEF(s) == [s EXCEPT !.phase = "DEBRIEF"]

\* RESET_GAME that keeps the score
RESET_GAME_KeepsScore(s) == [initialState EXCEPT !.score = s.score]

RESET_GAME(s) == initialState

\* an action of the reducer: its type and its payload
Action(type, payload) == [type |-> type, payload |-> payload]

Act(type) == Action(type, "")

gameReducer(s, action) ==
  CASE action.type = "SET_DIFFICULTY" ->
         SET_DIFFICULTY(s, action.payload.difficulty, action.payload.factors)
    [] action.type = "SET_LANGUAGE" -> SET_LANGUAGE(s, action.payload)
    [] action.type = "SET_ENDLESS_MODE" -> SET_ENDLESS_MODE(s, action.payload)
    [] action.type = "START_LOADING" -> START_LOADING(s)
    [] action.type = "LOAD_TASKS" -> LOAD_TASKS(s, action.payload)
    [] action.type = "START_PLAYING" -> START_PLAYING(s)
    [] action.type = "ANSWER_TASK" -> ANSWER_TASK(s, action.payload)
    [] action.type = "TICK_TIMER" -> TICK_TIMER(s)
    [] action.type = "TIME_UP" -> TIME_UP(s)
    [] action.type = "GAME_OVER" -> GAME_OVER(s, action.payload)
    [] action.type = "START_AUDITING" -> START_AUDITING(s)
    [] action.type = "SET_AUDIT_REPORT" -> SET_AUDIT_REPORT(s, action.payload)
    [] action.type = "START_DEBRIEF" -> START_DEBRIEF(s)
    [] action.type = "RESET_GAME" -> RESET_GAME(s)
    [] OTHER -> s

\* ------------------------------------------------------------------ services
\* a successful Snippet Generator response: a batch of labelled tasks
NewTask(i, vulnerable) ==
  [id |-> i, isVulnerable |-> vulnerable, status |-> "pending",
   userAnswer |-> Undefined]

Batches ==
  UNION {{[i \in 1..n |-> NewTask(i, f[i])] : f \in [1..n -> BOOLEAN]} :
           n \in 0..MaxTasks}

TaskIds(ts) == [i \in DOMAIN ts |-> ts[i].id]

Report(source) == [defined |-> TRUE, source |-> source, audioUrl |-> FALSE]

\* what the request to the remote Scanner comes to: its report, or a throw
\* (an error response, a timeout, no service)
RemoteOutcomes == {"report", "error", "timeout", "absent"}

\* the local fallback
generateMockAudit == [success |-> TRUE, report |-> Report("mock")]

auditTasks_NoFallback(remote) ==
  IF remote = "report"
  THEN [success |-> TRUE, report |-> Report("scanner")]
  ELSE [success |-> FALSE, report |-> NoReport]

\* auditTasks: the remote Scanner's report when the request succeeds, the
\* local fallback's when it throws
auditTasks(remote) ==
  IF remote = "report"
  THEN [success |-> TRUE, report |-> Report("scanner")]
  ELSE generateMockAudit

perfectScoreReport == Report("perfect")

\* what the request to the Speech Synthesizer comes to: an audio handle, or a
\* throw
SpeechOutcomes == {"audio", "error"}

\* generateSpeech: a failure result when the request throws
generateSpeech(remote) == [success |-> remote = "audio"]

generateReportAudio(remote) == generateSpeech(remote)

\* the report handed to setAuditReport: the audit's report and the audio
\* handle, absent when the speech failed
reportWithAudio(report, audioResult) ==
  [report EXCEPT !.audioUrl = audioResult.success]

\* ------------------------------------------------------- audit synthesis
VulnerabilityTypes ==
  {"XSS", "SQL_INJECTION", "RCE", "SSRF", "PATH_TRAVERSAL",
   "COMMAND_INJECTION", "INSECURE_DESERIALIZATION", "SAFE"}

Severities == {"CRITICAL", "HIGH", "MEDIUM", "LOW"}

SEVERITY_MAP(type) ==
  IF type \in {"SQL_INJECTION", "RCE", "COMMAND_INJECTION"} THEN "CRITICAL"
  ELSE IF type = "SAFE" THEN "LOW"
  ELSE "HIGH"

\* a task as the audit request carries it; the optional vulnerabilityLine
\* is <<>> when absent and <<n>> when present
AuditedTask(i, vulnerable, type, line) ==
  [id |-> i, isVulnerable |-> vulnerable, vulnerabilityType |-> type,
   vulnerabilityLine |-> line]

IsVulnerableTask(task) == task.isVulnerable

findingOf(task) ==
  [taskId |-> task.id,
   vulnerability |-> task.vulnerabilityType,
   severity |-> SEVERITY_MAP(task.vulnerabilityType),
   codeLocation |->
     [line |-> IF task.vulnerabilityLine \in {<<>>, <<0>>} THEN 1
               ELSE task.vulnerabilityLine[1],
      column |-> 1]]

\* the fallback with a finding for every task of the request
mockFindings_EveryTask(tasks) == [i \in DOMAIN tasks |-> findingOf(tasks[i])]

\* generateMockAudit: the findings
mockFindings(tasks) ==
  LET vulnerable == SelectSeq(tasks, IsVulnerableTask)
  IN [i \in DOMAIN vulnerable |-> findingOf(vulnerable[i])]

CountSeverity(findings, severity) ==
  Cardinality({i \in DOMAIN findings : findings[i].severity = severity})

\* generateMockAudit: the summary
mockSummary(findings) ==
  LET vulnerableCount == Len(findings)
      criticalCount == CountSeverity(findings, "CRITICAL")
      highCount == CountSeverity(findings, "HIGH")
  IN IF vulnerableCount = 0
     THEN "Security scan complete. All analyzed code segments follow security best practices. No vulnerabilities detected."
     ELSE "Security scan detected " \o ToString(vulnerableCount)
          \o " vulnerabilit" \o (IF vulnerableCount = 1 THEN "y" ELSE "ies")
          \o " across ship systems. "
          \o (IF criticalCount > 0
               THEN ToString(criticalCount) \o " CRITICAL severity issue"
                    \o (IF criticalCount = 1 THEN "" ELSE "s")
                    \o " require immediate attention. "
               ELSE "")
          \o (IF highCount > 0
               THEN ToString(highCount) \o " HIGH severity issue"
                    \o (IF highCount = 1 THEN "" ELSE "s")
                    \o " should be addressed promptly. "
               ELSE "")
          \o "Review the detailed findings below for remediation guidance."

\* generateMockAudit: the report
mockAuditReport(tasks) ==
  [defined |-> TRUE, source |-> "mock", audioUrl |-> FALSE,
   findings |-> mockFindings(tasks),
   summary |-> mockSummary(mockFindings(tasks))]

\* ReportModal: SEVERITY_ORDER.indexOf
SeverityIndex(severity) ==
  IF severity = "CRITICAL" THEN 0
  ELSE IF severity = "HIGH" THEN 1
  ELSE IF severity = "MEDIUM" THEN 2
  ELSE IF severity = "LOW" THEN 3
  ELSE -1

\* the comparator with its operands exchanged
severityCompare_Descending(a, b) ==
  SeverityIndex(b.severity) - SeverityIndex(a.severity)

\* ReportModal: the comparator of the sort
severityCompare(a, b) == SeverityIndex(a.severity) - SeverityIndex(b.severity)

\* stable insertion: after every element that does not compare greater
RECURSIVE insertSorted(_, _)
insertSorted(sorted, f) ==
  IF sorted = <<>> THEN <<f>>
  ELSE IF severityCompare(sorted[Len(sorted)], f) <= 0
  THEN Append(sorted, f)
  ELSE Append(insertSorted(SubSeq(sorted, 1, Len(sorted) - 1), f),
              sorted[Len(sorted)])

\* ReportModal: [...report.findings].sort(comparator), a stable sort
RECURSIVE sortedFindings(_)
sortedFindings(findings) ==
  IF findings = <<>> THEN <<>>
  ELSE insertSorted(sortedFindings(SubSeq(findings, 1, Len(findings) - 1)),
                    findings[Len(findings)])

\* ------------------------------------------------------------------ App
VARIABLES
  state,          \* the GameState held by useReducer
  showEmergency,  \* App: useState(false)
  isGenerating,   \* App: useState(false)
  endlessStage,   \* App: useState('EASY')
  genCalls,       \* Snippet Generator calls in flight, with their continuation
  auditCalls,     \* handleContinueFromEmergency runs suspended at an await
  interval,       \* App: the setInterval of the timer effect exists
  requests,       \* Snippet Generator requests this behaviour may still issue
  last,           \* history: the last step and the reducer actions it dispatched
  round           \* history: what the reducer did since the round began

vars == <<state, showEmergency, isGenerating, endlessStage, genCalls,
          auditCalls, interval, requests, last, round>>

\* history: a call in flight is stale once the session was reset or a new
\* round was started after the call was issued
MarkStale(calls) == [i \in DOMAIN calls |-> [calls[i] EXCEPT !.stale = TRUE]]

RemoveAt(seq, i) == SubSeq(seq, 1, i - 1) \o SubSeq(seq, i + 1, Len(seq))

\* the timer effect of a render: the interval is set up when the rendered
\* phase is PLAYING and cleared by the cleanup otherwise
timerEffect(s) == s.phase = "PLAYING"

\* the timeout effect without its guard on the phase
timeoutFires_AnyPhase(s) == s.timeRemaining <= 0

\* the timeout effect of a render: does it dispatch TIME_UP
timeoutFires(s) == s.phase = "PLAYING" /\ s.timeRemaining <= 0

\* the committed render has effects that have not run yet
effectsDue(s, timer) == timer # timerEffect(s) \/ timeoutFires(s)

\* history: does this action assign gameOverReason in state s
AssignsReason(s, action) ==
  \/ action.type \in {"TIME_UP", "GAME_OVER"}
  \/ /\ action.type = "ANSWER_TASK"
     /\ HasCurrent(s)
     /\ \/ action.payload = "vulnerable" /\ ~CurrentTask(s).isVulnerable
        \/ IsLastTask(s)

NewRound == [reasonLog |-> <<>>, reports |-> 0, timeUps |-> 0]

\* history: the round log after action took state s to state next.  The log
\* starts afresh when a round starts or the session is reset; it keeps each
\* assignment of gameOverReason with the phase before and after it, and counts
\* the reports stored and the TIME_UPs since the countdown was last started
RoundStep(r, s, action, next) ==
  IF action.type \in {"START_LOADING", "RESET_GAME"} THEN NewRound
  ELSE IF action.type = "START_PLAYING" THEN [r EXCEPT !.timeUps = 0]
  ELSE IF action.type = "SET_AUDIT_REPORT" THEN [r EXCEPT !.reports = @ + 1]
  ELSE IF AssignsReason(s, action)
  THEN [r EXCEPT !.reasonLog =
                   Append(@, <<next.gameOverReason, s.phase, next.phase>>),
                 !.timeUps = IF action.type = "TIME_UP" THEN @ + 1 ELSE @]
  ELSE r

\* the actions a step dispatches, folded over the state in dispatch order
RECURSIVE Dispatch(_, _)
Dispatch(sr, actions) ==
  IF actions = <<>> THEN sr
  ELSE LET next == gameReducer(sr.s, Head(actions))
       IN Dispatch([s |-> next,
                    r |-> RoundStep(sr.r, sr.s, Head(actions), next)],
                   Tail(actions))

EventOf(action) ==
  <<action.type,
    IF action.type \in {"ANSWER_TASK", "GAME_OVER"} THEN action.payload ELSE "">>

\* what a step leaves behind.  The actions it dispatches are queued; before
\* the next render the effects of the committed render run with the state of
\* that render: the timer effect sets up or clears the interval, the timeout
\* effect dispatches TIME_UP and raises the emergency overlay; then the
\* reducer folds the queue over the state
Commit(step, actions, emergency) ==
  LET queue == IF timeoutFires(state)
               THEN Append(actions, Act("TIME_UP")) ELSE actions
      done == Dispatch([s |-> state, r |-> round], queue)
  IN /\ state' = done.s
     /\ round' = done.r
     /\ showEmergency' = IF timeoutFires(state) THEN TRUE ELSE emergency
     /\ interval' = timerEffect(state)
     /\ last' = [step |-> step, from |-> state.phase,
                 events |-> [i \in DOMAIN queue |-> EventOf(queue[i])]]

DifficultySelectShown ==
  /\ state.phase = "LOADING"
  /\ Len(state.tasks) = 0
  /\ ~(state.endlessMode /\ isGenerating)

EmergencyOverlayShown ==
  /\ state.phase \in {"PLAYING", "AUDITING"}
  /\ showEmergency
  /\ state.gameOverReason # Undefined

InitWith(budget) ==
  /\ state = initialState
  /\ showEmergency = FALSE
  /\ isGenerating = FALSE
  /\ endlessStage = "EASY"
  /\ genCalls = <<>>
  /\ auditCalls = <<>>
  /\ interval = FALSE
  /\ requests = budget
  /\ last = [step |-> "Init", from |-> "IDLE", events |-> <<>>]
  /\ round = NewRound

Init == InitWith(MaxRequests)

\* HomePage play button
handlePlay ==
  /\ state.phase = "IDLE"
  /\ Commit("handlePlay", <<Act("RESET_GAME"), Act("START_LOADING")>>,
            showEmergency)
  /\ genCalls' = MarkStale(genCalls)
  /\ auditCalls' = MarkStale(auditCalls)
  /\ UNCHANGED <<isGenerating, endlessStage, requests>>

\* DifficultySelect endless toggle
onToggleEndless ==
  /\ DifficultySelectShown
  /\ Commit("onToggleEndless",
            <<Action("SET_ENDLESS_MODE", ~state.endlessMode)>>, showEmergency)
  /\ UNCHANGED <<isGenerating, endlessStage, genCalls, auditCalls, requests>>

\* the request generateEndlessBatch sends for a stage
endlessRequest(stage, factors) ==
  [difficulty |-> stage,
   complexityLevel |-> calculateGameConfig(stage, factors, 0).complexityLevel,
   count |-> 5]

\* the request handleStartGame sends
startRequest(endless, difficulty, factors, random) ==
  IF endless
  THEN endlessRequest("EASY", factors)
  ELSE [difficulty |-> difficulty,
        complexityLevel |->
          calculateGameConfig(difficulty, factors, 0).complexityLevel,
        count |-> calculateGameConfig(difficulty, factors, random).taskCount]

\* DifficultySelect start button, disabled with no active factor:
\* handleStartGame up to its await
handleStartGameWith(difficulties, factorSets) ==
  /\ DifficultySelectShown
  /\ requests > 0
  /\ \E difficulty \in difficulties, factors \in factorSets,
        language \in LanguageChoices, random \in Randoms :
       /\ factorCount(factors) # 0
       /\ LET startingDifficulty ==
                IF state.endlessMode THEN "EASY" ELSE difficulty
          IN Commit("handleStartGame",
                    <<Action("SET_DIFFICULTY",
                             [difficulty |-> startingDifficulty,
                              factors |-> factors]),
                      Action("SET_LANGUAGE", language),
                      Act("START_LOADING")>>,
                    showEmergency)
       /\ genCalls' =
            Append(MarkStale(genCalls),
                   [kind |-> "start", endless |-> state.endlessMode,
                    request |-> startRequest(state.endlessMode, difficulty,
                                             factors, random),
                    stale |-> FALSE])
  /\ isGenerating' = TRUE
  /\ auditCalls' = MarkStale(auditCalls)
  /\ requests' = requests - 1
  /\ UNCHANGED endlessStage

handleStartGame == handleStartGameWith(DifficultyChoices, FactorChoices)

\* the start button with any selection of the screen
handleStartAnySelection == handleStartGameWith(Difficulties, AllFactors)

\* a generator call resolves with a batch: the continuation of
\* handleStartGame, or of the endless progression of handleAnswer
generatorSucceeds ==
  \E i \in DOMAIN genCalls, batch \in Batches :
    /\ Commit(IF genCalls[i].stale THEN "lateGeneratorSucceeds"
              ELSE "generatorSucceeds",
              <<Action("LOAD_TASKS", batch), Act("START_PLAYING")>>,
              showEmergency)
    /\ endlessStage' = IF genCalls[i].kind = "start" /\ genCalls[i].endless
                       THEN "EASY" ELSE endlessStage
    /\ isGenerating' = FALSE
    /\ genCalls' = RemoveAt(genCalls, i)
    /\ UNCHANGED <<auditCalls, requests>>

\* a generator call resolves with a failure
generatorFails ==
  \E i \in DOMAIN genCalls :
    /\ Commit("generatorFails", <<Act("RESET_GAME")>>, showEmergency)
    /\ isGenerating' = FALSE
    /\ genCalls' = MarkStale(RemoveAt(genCalls, i))
    /\ auditCalls' = MarkStale(auditCalls)
    /\ UNCHANGED <<endlessStage, requests>>

\* DifficultySelect abort button and ReportModal restart button
handleRestart ==
  /\ DifficultySelectShown \/ state.phase = "DEBRIEF"
  /\ Commit("handleRestart", <<Act("RESET_GAME")>>, showEmergency)
  /\ genCalls' = MarkStale(genCalls)
  /\ auditCalls' = MarkStale(auditCalls)
  /\ UNCHANGED <<isGenerating, endlessStage, requests>>

\* the effects of the committed render run before any other event
flushEffects ==
  /\ effectsDue(state, interval)
  /\ Commit("flushEffects", <<>>, showEmergency)
  /\ UNCHANGED <<isGenerating, endlessStage, genCalls, auditCalls, requests>>

\* one firing of the interval of the timer effect
tickTimer ==
  /\ interval
  /\ Commit("tickTimer", <<Act("TICK_TIMER")>>, showEmergency)
  /\ UNCHANGED <<isGenerating, endlessStage, genCalls, auditCalls, requests>>

\* GameScreen verdict buttons and keys: handleAnswer
nextEndlessStage(stage) == IF stage = "EASY" THEN "MEDIUM" ELSE "HARD"

previousFailed(s) ==
  \E i \in DOMAIN s.tasks :
    i # s.currentTaskIndex + 1 /\ s.tasks[i].status = "failed"

handleAnswer ==
  /\ state.phase = "PLAYING"
  /\ HasCurrent(state)
  /\ \E answer \in Answers :
       LET isCorrect == IsCorrect(CurrentTask(state), answer)
       IN IF state.endlessMode /\ ~isCorrect
          THEN \* endless run: a wrong answer ends the run
               /\ Commit("handleAnswer",
                         <<Action("ANSWER_TASK", answer),
                           Action("GAME_OVER", "wrong_answer")>>,
                         TRUE)
               /\ UNCHANGED <<isGenerating, endlessStage, genCalls, auditCalls,
                              requests>>
          ELSE IF /\ state.endlessMode
                  /\ IsLastTask(state)
                  /\ isCorrect
                  /\ ~previousFailed(state)
          THEN \* endless run: a perfect batch, the next one is requested
               /\ requests > 0
               /\ Commit("handleAnswer",
                         <<Action("ANSWER_TASK", answer), Act("START_LOADING")>>,
                         showEmergency)
               /\ endlessStage' = nextEndlessStage(endlessStage)
               /\ isGenerating' = TRUE
               /\ genCalls' =
                    Append(MarkStale(genCalls),
                           [kind |-> "endless", endless |-> TRUE,
                            request |->
                              endlessRequest(nextEndlessStage(endlessStage),
                                             state.difficultyFactors),
                            stale |-> FALSE])
               /\ auditCalls' = MarkStale(auditCalls)
               /\ requests' = requests - 1
          ELSE /\ Commit("handleAnswer", <<Action("ANSWER_TASK", answer)>>,
                         IF IsLastTask(state) THEN TRUE ELSE showEmergency)
               /\ UNCHANGED <<isGenerating, endlessStage, genCalls, auditCalls,
                              requests>>

\* the tasks handed to the audit
NeedsAudit(t) ==
  t.status = "failed" \/ (t.isVulnerable /\ t.status # "completed")

IsFailed(t) == t.status = "failed"

tasksToAudit(s) ==
  IF s.endlessMode
  THEN SelectSeq(s.tasks, IsFailed)
  ELSE SelectSeq(s.tasks, NeedsAudit)

\* EmergencyOverlay continue button: handleContinueFromEmergency up to its
\* first await
handleContinueFromEmergency ==
  /\ EmergencyOverlayShown
  /\ Commit("handleContinueFromEmergency", <<Act("START_AUDITING")>>, FALSE)
  /\ auditCalls' =
       Append(auditCalls,
              IF Len(tasksToAudit(state)) > 0
              THEN [stage |-> "scanner", tasks |-> TaskIds(tasksToAudit(state)),
                    report |-> NoReport, stale |-> FALSE]
              ELSE [stage |-> "speech", tasks |-> <<>>,
                    report |-> perfectScoreReport, stale |-> FALSE])
  /\ UNCHANGED <<isGenerating, endlessStage, genCalls, requests>>

\* auditTasks resolves; the speech request for its summary is issued
auditTasksResolves ==
  \E i \in DOMAIN auditCalls, remote \in RemoteOutcomes :
    LET auditResult == auditTasks(remote)
    IN /\ auditCalls[i].stage = "scanner"
       /\ IF auditResult.success
          THEN /\ auditCalls' = [auditCalls EXCEPT
                                   ![i].stage = "speech",
                                   ![i].tasks = <<>>,
                                   ![i].report = auditResult.report]
               /\ last' = [step |-> "auditTasksResolves",
                           from |-> state.phase, events |-> <<>>]
               /\ UNCHANGED <<state, showEmergency, interval, round>>
          ELSE \* no report is stored; the debrief is entered all the same
               /\ Commit("auditTasksResolves", <<Act("START_DEBRIEF")>>,
                         showEmergency)
               /\ auditCalls' = RemoveAt(auditCalls, i)
       /\ UNCHANGED <<isGenerating, endlessStage, genCalls, requests>>

\* generateReportAudio resolves, with an audio handle or with a failure;
\* the report is stored and the debrief entered
generateReportAudioResolves ==
  \E i \in DOMAIN auditCalls, remote \in SpeechOutcomes :
    /\ auditCalls[i].stage = "speech"
    /\ Commit(IF auditCalls[i].stale THEN "lateReportAudioResolves"
              ELSE "generateReportAudioResolves",
              <<Action("SET_AUDIT_REPORT",
                       reportWithAudio(auditCalls[i].report,
                                       generateReportAudio(remote))),
                Act("START_DEBRIEF")>>,
              showEmergency)
    /\ auditCalls' = RemoveAt(auditCalls, i)
    /\ UNCHANGED <<isGenerating, endlessStage, genCalls, requests>>

Next ==
  \/ handlePlay
  \/ onToggleEndless
  \/ handleStartGame
  \/ generatorSucceeds
  \/ generatorFails
  \/ handleRestart
  \/ flushEffects
  \/ tickTimer
  \/ handleAnswer
  \/ handleContinueFromEmergency
  \/ auditTasksResolves
  \/ generateReportAudioResolves

Spec == Init /\ [][Next]_vars

\* prompt play: the player answers every task before the first tick of its
\* countdown and leaves the emergency overlay open, over a longer series of
\* generator requests
PromptNext ==
  \/ handlePlay
  \/ onToggleEndless
  \/ handleStartGame
  \/ generatorSucceeds
  \/ generatorFails
  \/ handleRestart
  \/ flushEffects
  \/ handleAnswer

PromptSpec == InitWith(MaxPromptRequests) /\ [][PromptNext]_vars

\* the mission-parameters screen with every selection it offers, up to the
\* first render of the round
ConfigNext ==
  \/ handlePlay
  \/ onToggleEndless
  \/ handleStartAnySelection
  \/ generatorSucceeds
  \/ generatorFails
  \/ handleRestart
  \/ flushEffects

ConfigSpec == Init /\ [][ConfigNext]_vars

\* ---------------------------------------------------- the audit on its own
\* vulnerabilityLine of a task: absent, or a line of the snippet
Lines == {<<>>, <<7>>}

AuditedTasks(n) ==
  {[i \in 1..n |-> AuditedTask(i, k[i].v, k[i].t, k[i].l)] :
     k \in [1..n -> [v : BOOLEAN, t : VulnerabilityTypes, l : Lines]]}

\* the task lists of a request to the audit
AuditRequests == UNION {AuditedTasks(n) : n \in 1..MaxAudited}

\* the findings of a report of the remote Scanner
RemoteFindings ==
  UNION {{[i \in 1..n |->
             [taskId |-> i, vulnerability |-> "XSS", severity |-> sev[i],
              codeLocation |-> [line |-> 1, column |-> 1]]] :
            sev \in [1..n -> Severities]} : n \in 0..MaxFindings}

\* handleContinueFromEmergency calls auditTasks
auditRequested ==
  /\ auditCalls = <<>>
  /\ \E tasks \in AuditRequests :
       auditCalls' = <<[stage |-> "scanner", tasks |-> tasks,
                        report |-> NoReport, stale |-> FALSE]>>
  /\ last' = [step |-> "auditTasks", from |-> state.phase, events |-> <<>>]
  /\ UNCHANGED <<state, showEmergency, isGenerating, endlessStage, genCalls,
                 interval, requests, round>>

\* the remote Scanner answers
scannerReports ==
  /\ auditCalls # <<>>
  /\ auditCalls[1].stage = "scanner"
  /\ \E findings \in RemoteFindings :
       auditCalls' =
         [auditCalls EXCEPT
            ![1].stage = "speech",
            ![1].tasks = <<>>,
            ![1].report = [defined |-> TRUE, source |-> "scanner",
                           audioUrl |-> FALSE, findings |-> findings,
                           summary |-> "remote summary"]]
  /\ last' = [step |-> "scannerReports", from |-> state.phase,
              events |-> <<>>]
  /\ UNCHANGED <<state, showEmergency, isGenerating, endlessStage, genCalls,
                 interval, requests, round>>

\* the request to the remote Scanner throws: generateMockAudit
fallbackReports ==
  /\ auditCalls # <<>>
  /\ auditCalls[1].stage = "scanner"
  /\ auditCalls' =
       [auditCalls EXCEPT ![1].stage = "speech",
                          ![1].report = mockAuditReport(auditCalls[1].tasks)]
  /\ last' = [step |-> "generateMockAudit", from |-> state.phase,
              events |-> <<>>]
  /\ UNCHANGED <<state, showEmergency, isGenerating, endlessStage, genCalls,
                 interval, requests, round>>

\* ReportModal renders the stored report
showReport ==
  /\ auditCalls # <<>>
  /\ auditCalls[1].stage = "speech"
  /\ auditCalls' = [auditCalls EXCEPT ![1].stage = "shown"]
  /\ last' = [step |-> "ReportModal", from |-> state.phase, events |-> <<>>,
              sortedFindings |-> sortedFindings(auditCalls[1].report.findings)]
  /\ UNCHANGED <<state, showEmergency, isGenerating, endlessStage, genCalls,
                 interval, requests, round>>

\* the report view is left
closeReport ==
  /\ auditCalls # <<>>
  /\ auditCalls[1].stage = "shown"
  /\ auditCalls' = <<>>
  /\ last' = [step |-> "closeReport", from |-> state.phase, events |-> <<>>]
  /\ UNCHANGED <<state, showEmergency, isGenerating, endlessStage, genCalls,
                 interval, requests, round>>

AuditNext ==
  \/ auditRequested
  \/ scannerReports
  \/ fallbackReports
  \/ showReport
  \/ closeReport

AuditSpec == Init /\ [][AuditNext]_vars

\* ------------------------------------------------------- fair scheduling
\* what the runtime guarantees: a request to the Scanner or to the Speech
\* Synthesizer comes back, the effects of a committed render run, and the
\* interval fires for as long as it is set
Fairness ==
  /\ WF_vars(auditTasksResolves)
  /\ WF_vars(generateReportAudioResolves)
  /\ WF_vars(flushEffects)
  /\ WF_vars(tickTimer)

FairSpec == InitWith(MaxFairRequests) /\ [][Next]_vars /\ Fairness

\* rounds played to their end: the player neither aborts nor toggles endless
\* mode and every generator call succeeds
RoundNext ==
  \/ handlePlay
  \/ handleStartGame
  \/ generatorSucceeds
  \/ flushEffects
  \/ tickTimer
  \/ handleAnswer
  \/ handleContinueFromEmergency
  \/ auditTasksResolves
  \/ generateReportAudioResolves

FairRoundSpec == Init /\ [][RoundNext]_vars /\ Fairness

\* ------------------------------------------------------------------ claims
\* the last step dispatched an action of this type
Dispatched(type) == \E i \in DOMAIN last.events : last.events[i][1] = type

TimeUpsIn(events) ==
  Cardinality({i \in DOMAIN events : events[i][1] = "TIME_UP"})

SafeTaskIsCurrent ==
  state.phase = "PLAYING" /\ HasCurrent(state) /\ ~CurrentTask(state).isVulnerable

\* C1: in PLAYING, ANSWER_TASK 'vulnerable' on a safe current task marks the
\* task failed, adds exactly 1 to totalIncorrect, leaves the score alone, sets
\* the reason to wrong_answer and moves to AUDITING, however many tasks
\* remain; and a handleAnswer step that dispatches only this action leaves the
\* session in exactly that state
C1_FalseAccusationEndsRound ==
  /\ [](SafeTaskIsCurrent =>
          LET next == gameReducer(state, Action("ANSWER_TASK", "vulnerable"))
          IN /\ next.tasks[state.currentTaskIndex + 1].status = "failed"
             /\ next.totalIncorrect = state.totalIncorrect + 1
             /\ next.totalCorrect = state.totalCorrect
             /\ next.score = state.score
             /\ next.gameOverReason = "wrong_answer"
             /\ next.phase = "AUDITING")
  /\ [][(/\ SafeTaskIsCurrent
         /\ last'.step = "handleAnswer"
         /\ last'.events = << <<"ANSWER_TASK", "vulnerable">> >>) =>
          /\ state' = gameReducer(state, Action("ANSWER_TASK", "vulnerable"))
          /\ state'.phase = "AUDITING"
          /\ state'.gameOverReason = "wrong_answer"]_vars

\* a false accusation with a task still to come has ended the round
C1_Witness ==
  /\ last.step = "handleAnswer"
  /\ last.events = << <<"ANSWER_TASK", "vulnerable">> >>
  /\ state.currentTaskIndex + 1 < Len(state.tasks)
  /\ ~state.tasks[state.currentTaskIndex + 1].isVulnerable
  /\ state.tasks[state.currentTaskIndex + 1].status = "failed"
  /\ state.gameOverReason = "wrong_answer"
  /\ state.phase = "AUDITING"

\* C2: the score is 100 times totalCorrect in every reachable state; a
\* correct answer adds exactly 100, an incorrect answer, a timeout and a
\* timer tick leave the score unchanged
C2_ScoreIsHundredPerCorrect ==
  /\ state.score = 100 * state.totalCorrect
  /\ (state.phase = "PLAYING" /\ HasCurrent(state)) =>
       \A answer \in Answers :
         gameReducer(state, Action("ANSWER_TASK", answer)).score =
           IF (answer = "vulnerable") = CurrentTask(state).isVulnerable
           THEN state.score + 100 ELSE state.score
  /\ gameReducer(state, Act("TIME_UP")).score = state.score
  /\ gameReducer(state, Act("TICK_TIMER")).score = state.score

\* one answer was right and one was wrong
C2_Witness ==
  /\ last.step = "handleAnswer"
  /\ state.totalCorrect = 1
  /\ state.totalIncorrect = 1
  /\ state.score = 100

\* C3: totalCorrect + totalIncorrect never exceeds the number of tasks and
\* equals the number of tasks whose status is completed or failed, also after
\* a timeout and after a false accusation
C3_TotalsCountDecidedTasks ==
  /\ state.totalCorrect + state.totalIncorrect <= Len(state.tasks)
  /\ state.totalCorrect + state.totalIncorrect =
       Cardinality({i \in DOMAIN state.tasks :
                      state.tasks[i].status \in {"completed", "failed"}})

\* C4: within a round the reason is assigned exactly once, by the step that
\* moves the phase into AUDITING, and never changed afterwards
C4_ReasonAssignedOnce ==
  /\ Len(round.reasonLog) <= 1
  /\ \A i \in DOMAIN round.reasonLog :
       round.reasonLog[i][2] # "AUDITING" /\ round.reasonLog[i][3] = "AUDITING"
  /\ state.gameOverReason # Undefined =>
       Len(round.reasonLog) = 1 /\ round.reasonLog[1][1] = state.gameOverReason

\* C5: the countdown reaching 0 in PLAYING yields exactly one TIME_UP: TIME_UP
\* is dispatched only by a step taken with the countdown at 0 in PLAYING, once,
\* and leaves no expiry behind; since the countdown was started at most one
\* TIME_UP was applied; a tick at 0 keeps 0 and brings no further TIME_UP
C5_OneTimeUpPerExpiry ==
  /\ [](/\ round.timeUps <= 1
        /\ TimeUpsIn(last.events) <= 1
        /\ Dispatched("TIME_UP") => ~timeoutFires(state)
        /\ state.timeRemaining = 0 =>
             gameReducer(state, Act("TICK_TIMER")).timeRemaining = 0)
  /\ [][/\ TimeUpsIn(last'.events) <= IF timeoutFires(state) THEN 1 ELSE 0
        /\ (timeoutFires(state) /\ state' # state) =>
             TimeUpsIn(last'.events) = 1]_vars

\* the countdown ran out and the one TIME_UP ended the round
C5_Witness ==
  /\ Dispatched("TIME_UP")
  /\ round.timeUps = 1
  /\ state.timeRemaining = 0
  /\ state.gameOverReason = "timeout"
  /\ state.phase = "AUDITING"

\* C6: a step that ends with RESET_GAME, from whatever state, leaves the
\* session equal field for field to the initial IDLE state
C6_ResetRestoresInitialState ==
  (last.events # <<>> /\ last.events[Len(last.events)][1] = "RESET_GAME") =>
    /\ state.phase = "IDLE"
    /\ state.difficulty = "MEDIUM"
    /\ state.difficultyFactors = Factors(TRUE, TRUE, FALSE)
    /\ state.language = "javascript"
    /\ state.tasks = <<>>
    /\ state.currentTaskIndex = 0
    /\ state.timePerTask = 30
    /\ state.timeRemaining = 30
    /\ state.score = 0
    /\ state.totalCorrect = 0
    /\ state.totalIncorrect = 0
    /\ state.gameOverReason = Undefined
    /\ ~state.auditReport.defined

\* the session was reset from the debrief of a played round
C6_Witness ==
  /\ last.step = "handleRestart"
  /\ last.from = "DEBRIEF"
  /\ state.phase = "IDLE"

RoundCleared(s) ==
  /\ s.tasks = <<>>
  /\ s.currentTaskIndex = 0
  /\ s.score = 0
  /\ s.totalCorrect = 0
  /\ s.totalIncorrect = 0
  /\ s.gameOverReason = Undefined
  /\ ~s.auditReport.defined

RoundConfig(s) ==
  <<s.difficulty, s.difficultyFactors, s.language, s.timePerTask>>

\* C7: every transition into LOADING clears tasks, currentTaskIndex, score,
\* the totals, the reason and the report, and leaves difficulty,
\* difficultyFactors, language and timePerTask as they were: for START_LOADING
\* applied to any reachable state, and for every step that enters LOADING
C7_LoadingClearsRound ==
  /\ [](LET next == gameReducer(state, Act("START_LOADING"))
        IN /\ next.phase = "LOADING"
           /\ RoundCleared(next)
           /\ RoundConfig(next) = RoundConfig(state))
  /\ [][(state.phase # "LOADING" /\ state'.phase = "LOADING") =>
          RoundCleared(state') /\ RoundConfig(state') = RoundConfig(state)]_vars

\* an endless run entered LOADING for its next batch, from a round that had
\* tasks and a score
C7_Witness ==
  /\ last.step = "handleAnswer"
  /\ last.from = "PLAYING"
  /\ Dispatched("START_LOADING")
  /\ state.phase = "LOADING"
  /\ state.language = "python"
  /\ state.tasks = <<>>
  /\ state.score = 0

\* C8: the response of an audit call that was in flight when the session was
\* reset or a new round begun is ignored: it neither stores a report nor moves
\* the phase to DEBRIEF
C8_LateAuditResponseIgnored ==
  last.step = "lateReportAudioResolves" =>
    /\ ~Dispatched("SET_AUDIT_REPORT")
    /\ ~Dispatched("START_DEBRIEF")
    /\ (last.from # "DEBRIEF" => state.phase # "DEBRIEF")

\* C9: once the phase has left PLAYING no tick and no TIME_UP is applied:
\* timeRemaining is not decremented, no task is failed by timeout, and a
\* reason wrong_answer or completed is never replaced by timeout
C9_NoTimerEventAfterPlaying ==
  /\ last.from # "PLAYING" =>
       ~Dispatched("TICK_TIMER") /\ ~Dispatched("TIME_UP")
  /\ \A i \in DOMAIN round.reasonLog :
       round.reasonLog[i][1] = "timeout" => round.reasonLog[i][2] = "PLAYING"

OutstandingAudits(stage) ==
  Cardinality({i \in DOMAIN auditCalls :
                 auditCalls[i].stage = stage /\ ~auditCalls[i].stale})

\* C10: at most one Scanner request and at most one Speech request are
\* outstanding in a round, and SET_AUDIT_REPORT is applied at most once in a
\* round, also when the continue is triggered more than once
C10_OneAuditPerRound ==
  /\ OutstandingAudits("scanner") <= 1
  /\ OutstandingAudits("speech") <= 1
  /\ round.reports <= 1

StageRank(stage) ==
  IF stage = "EASY" THEN 1 ELSE IF stage = "MEDIUM" THEN 2 ELSE 3

\* the step is the answer that completes a batch of an endless run with no
\* task failed
PerfectBatchStep ==
  /\ last'.step = "handleAnswer"
  /\ state.endlessMode
  /\ state.phase = "PLAYING"
  /\ HasCurrent(state)
  /\ IsLastTask(state)
  /\ \A i \in DOMAIN state.tasks : state.tasks[i].status # "failed"
  /\ last'.events[1] =
       <<"ANSWER_TASK",
         IF CurrentTask(state).isVulnerable THEN "vulnerable" ELSE "safe">>

\* C11: in an endless run each batch completed with no failed task moves the
\* stage one step along EASY, MEDIUM, HARD, and from HARD it stays HARD; the
\* stage rises by nothing else, and it falls back only when the response to
\* the start of a new run arrives, never within a run
C11_StageEscalatesOnly ==
  [][/\ PerfectBatchStep =>
          StageRank(endlessStage') =
            IF StageRank(endlessStage) = 3 THEN 3 ELSE StageRank(endlessStage) + 1
     /\ StageRank(endlessStage') > StageRank(endlessStage) => PerfectBatchStep
     /\ StageRank(endlessStage') < StageRank(endlessStage) =>
          last'.step = "generatorSucceeds"]_vars

\* the step applies a failure to an endless run: an incorrect answer to the
\* current task, or a TIME_UP
EndlessFailureStep ==
  /\ state.endlessMode
  /\ \/ TimeUpsIn(last'.events) > 0
     \/ /\ last'.step = "handleAnswer"
        /\ state.phase = "PLAYING"
        /\ HasCurrent(state)
        /\ last'.events[1] =
             <<"ANSWER_TASK",
               IF CurrentTask(state).isVulnerable THEN "safe" ELSE "vulnerable">>

\* C12: in an endless run a failed task, a false accusation or a timeout ends
\* the run: the step requests no further batch and does not escalate, and it
\* leaves the session in AUDITING with the round-end overlay up, from where the
\* debrief is reached as in a normal round
C12_FailureEndsEndlessRun ==
  [][EndlessFailureStep =>
       /\ state'.phase = "AUDITING"
       /\ requests' = requests
       /\ Len(genCalls') <= Len(genCalls)
       /\ endlessStage' = endlessStage
       /\ showEmergency']_vars

\* the tasks a press of the continue button hands to the audit
Submitted == auditCalls'[Len(auditCalls')].tasks

\* C13: the tasks submitted for audit are the tasks with status failed plus
\* every vulnerable task whose status is not completed, in endless mode too
C13_AuditedTasksFilter ==
  [][last'.step = "handleContinueFromEmergency"
       => Submitted = TaskIds(SelectSeq(state.tasks, NeedsAudit))]_vars

\* the identity of the installed tasks, whatever their status
TaskList(s) ==
  [i \in DOMAIN s.tasks |->
     [id |-> s.tasks[i].id, isVulnerable |-> s.tasks[i].isVulnerable]]

\* C14: a failed generator call leaves the session in IDLE with no tasks, and
\* the installed task list changes only to the batch of a successful
\* generator response or to the empty list
C14_GeneratorFailureAborts ==
  /\ [](last.step = "generatorFails" =>
         state.phase = "IDLE" /\ state.tasks = <<>>)
  /\ [][TaskList(state') # TaskList(state) =>
          \/ state'.tasks = <<>>
          \/ last'.step \in {"generatorSucceeds", "lateGeneratorSucceeds"}]_vars

\* C15: whatever becomes of the request to the remote Scanner, auditTasks
\* yields a successful result: the Scanner's report when the request
\* succeeds, the local fallback's otherwise; and a resolved auditTasks leaves
\* its call with a report, waiting for the speech, and dispatches nothing
C15_ScannerFailureRecovered ==
  /\ [](\A remote \in RemoteOutcomes :
          /\ auditTasks(remote).success
          /\ auditTasks(remote).report =
               IF remote = "report" THEN Report("scanner") ELSE Report("mock"))
  /\ [][last'.step = "auditTasksResolves" =>
          /\ last'.events = <<>>
          /\ state' = state
          /\ \E i \in DOMAIN auditCalls :
               /\ auditCalls[i].stage = "scanner"
               /\ auditCalls' = [auditCalls EXCEPT
                                   ![i].stage = "speech",
                                   ![i].tasks = <<>>,
                                   ![i].report = auditCalls'[i].report]
               /\ auditCalls'[i].report \in {Report("scanner"), Report("mock")}
         ]_vars

\* the Scanner request failed and the fallback's report awaits the speech
C15_Witness ==
  /\ last.step = "auditTasksResolves"
  /\ \E i \in DOMAIN auditCalls :
       auditCalls[i].stage = "speech" /\ auditCalls[i].report = Report("mock")

\* the reports an audit comes to: the Scanner's, the fallback's, and the one
\* of a round with nothing to audit
AuditPaths == {Report("scanner"), Report("mock"), perfectScoreReport}

\* C16: on every audit path the speech is requested for the report's summary;
\* when the request resolves the report is stored, with the audio handle if
\* the speech succeeded and without it if it failed, and the session is in
\* DEBRIEF
C16_SpeechFailureOmitsAudio ==
  /\ [](/\ \A r \in AuditPaths :
             /\ reportWithAudio(r, generateReportAudio("audio")) =
                  [r EXCEPT !.audioUrl = TRUE]
             /\ reportWithAudio(r, generateReportAudio("error")) =
                  [r EXCEPT !.audioUrl = FALSE]
        /\ \A i \in DOMAIN auditCalls :
             auditCalls[i].stage = "speech" => auditCalls[i].report \in AuditPaths)
  /\ [][last'.step = "generateReportAudioResolves" =>
          /\ state'.phase = "DEBRIEF"
          /\ \E i \in DOMAIN auditCalls, remote \in SpeechOutcomes :
               /\ auditCalls[i].stage = "speech"
               /\ auditCalls' = RemoveAt(auditCalls, i)
               /\ state'.auditReport =
                    [auditCalls[i].report EXCEPT
                       !.audioUrl = (remote = "audio")]
         ]_vars

\* C17: the phase becomes DEBRIEF only from AUDITING, and in DEBRIEF the
\* audit report is defined
C17_DebriefFromAuditingWithReport ==
  /\ [](state.phase = "DEBRIEF" => state.auditReport.defined)
  /\ [][state'.phase = "DEBRIEF" /\ state.phase # "DEBRIEF" =>
          state.phase = "AUDITING"]_vars

\* C18: in PLAYING the installed task list is not empty, also after the
\* generator succeeded with an empty batch
C18_PlayingHasTasks == state.phase = "PLAYING" => Len(state.tasks) > 0

CurrentTasks(s) == {i \in DOMAIN s.tasks : s.tasks[i].status = "current"}

\* C19: in PLAYING exactly one task has status current
C19_OneCurrentTask ==
  state.phase = "PLAYING" => Cardinality(CurrentTasks(state)) = 1

\* C20: currentTaskIndex lies between 0 and the number of installed tasks
C20_IndexWithinTasks ==
  0 <= state.currentTaskIndex /\ state.currentTaskIndex <= Len(state.tasks)

\* C21: timeRemaining lies between 0 and timePerTask in every reachable
\* state: after a difficulty change, after tasks are installed, after ticks
C21_TimeRemainingWithinBudget ==
  0 <= state.timeRemaining /\ state.timeRemaining <= state.timePerTask

\* the difficulty was changed, tasks were installed and the countdown has
\* been ticked down to 0
C21_Witness ==
  /\ last.step = "tickTimer"
  /\ state.timePerTask # initialState.timePerTask
  /\ Len(state.tasks) > 0
  /\ state.timeRemaining = 0

PhaseOrder ==
  {<<"IDLE", "LOADING">>, <<"LOADING", "PLAYING">>, <<"PLAYING", "AUDITING">>,
   <<"AUDITING", "DEBRIEF">>}

\* C22: every phase change is IDLE to LOADING, LOADING to PLAYING, PLAYING to
\* AUDITING, AUDITING to DEBRIEF, or a reset to IDLE; so no phase is entered
\* again without a reset in between
C22_PhaseChangesInOrder ==
  [][state'.phase # state.phase =>
       \/ <<state.phase, state'.phase>> \in PhaseOrder
       \/ state'.phase = "IDLE" /\ Dispatched("RESET_GAME")']_vars

\* the step is a correct answer to a task of the round that has no verdict
\* yet, and the task is completed by it
ScoringStep ==
  /\ last'.step = "handleAnswer"
  /\ state.phase = "PLAYING"
  /\ HasCurrent(state)
  /\ CurrentTask(state).status \notin {"completed", "failed"}
  /\ CurrentTask(state).userAnswer = Undefined
  /\ last'.events[1] =
       <<"ANSWER_TASK",
         IF CurrentTask(state).isVulnerable THEN "vulnerable" ELSE "safe">>

\* C23: the score changes only by +100, for an answer that completes a task
\* with no verdict yet (so once per task), and otherwise only goes back to 0
\* with a transition into LOADING or a reset
C23_ScoreStepsOncePerTask ==
  [][state'.score # state.score =>
       \/ state'.score = state.score + 100 /\ ScoringStep
       \/ /\ state'.score = 0
          /\ \E i \in DOMAIN last'.events :
               last'.events[i][1] \in {"START_LOADING", "RESET_GAME"}]_vars

\* both tasks of a batch have been scored
C23_Witness ==
  /\ last.step = "handleAnswer"
  /\ state.score = 200
  /\ \A i \in DOMAIN state.tasks : state.tasks[i].status = "completed"

\* the selections the start button accepts
ActiveFactors == {f \in AllFactors : factorCount(f) \in 1..3}

\* the timePerTask the claim gives: base 15, 30, 45 by the number of active
\* factors; floor(base * 1.5) = 22, 45, 67; floor(base * 0.7) = 10, 21, 31
ClaimedTimePerTask(difficulty, factors) ==
  LET n == factorCount(factors)
  IN IF ~factors.affectsTimer THEN <<15, 30, 45>>[n]
     ELSE IF difficulty = "EASY" THEN <<22, 45, 67>>[n]
     ELSE IF difficulty = "HARD" THEN <<10, 21, 31>>[n]
     ELSE <<15, 30, 45>>[n]

\* C24: for every difficulty and every selection with 1, 2 or 3 active
\* factors the resolver's timePerTask is the base 15, 30 or 45, scaled by 1.5
\* (EASY) or 0.7 (HARD) and floored when the timer factor is active; HARD
\* with the timer factor alone gives 10; and a started round carries that
\* value
C24_TimePerTaskTable ==
  /\ \A d \in Difficulties, f \in ActiveFactors, r \in Randoms :
       calculateGameConfig(d, f, r).timePerTask = ClaimedTimePerTask(d, f)
  /\ calculateGameConfig("HARD", Factors(TRUE, FALSE, FALSE), 0).timePerTask
       = 10
  /\ last.step = "handleStartGame" =>
       /\ state.difficultyFactors \in ActiveFactors
       /\ state.timePerTask =
            ClaimedTimePerTask(state.difficulty, state.difficultyFactors)
       /\ state.timeRemaining = state.timePerTask

\* a HARD round with the timer factor alone has been started
C24_Witness ==
  /\ last.step = "handleStartGame"
  /\ state.difficulty = "HARD"
  /\ state.difficultyFactors = Factors(TRUE, FALSE, FALSE)
  /\ state.timePerTask = 10

\* the request the start button has just sent
StartedRequest == genCalls[Len(genCalls)].request

ClaimedTaskCounts(difficulty, factors) ==
  IF ~factors.affectsTaskCount THEN {5}
  ELSE IF difficulty = "EASY" THEN {3, 4}
  ELSE IF difficulty = "HARD" THEN {6, 7}
  ELSE {5}

ClaimedComplexityLevel(difficulty, factors) ==
  IF ~factors.affectsComplexity THEN "basic"
  ELSE IF difficulty = "EASY" THEN "basic"
  ELSE IF difficulty = "MEDIUM" THEN "intermediate"
  ELSE "advanced"

\* C25: for every difficulty and factor set the resolver's taskCount is 5
\* without the task-count factor, else 3 or 4 (EASY), 5 (MEDIUM), 6 or 7
\* (HARD), and its complexityLevel is basic without the complexity factor,
\* else basic, intermediate, advanced; and the request of a started
\* non-endless round carries these values
C25_TaskCountAndComplexity ==
  /\ \A d \in Difficulties, f \in AllFactors, r \in Randoms :
       /\ calculateGameConfig(d, f, r).taskCount \in ClaimedTaskCounts(d, f)
       /\ calculateGameConfig(d, f, r).complexityLevel =
            ClaimedComplexityLevel(d, f)
  /\ last.step = "handleStartGame" /\ ~state.endlessMode =>
       /\ StartedRequest.count \in
            ClaimedTaskCounts(state.difficulty, state.difficultyFactors)
       /\ StartedRequest.complexityLevel =
            ClaimedComplexityLevel(state.difficulty, state.difficultyFactors)

\* a HARD round with the task-count and complexity factors asks for seven
\* advanced tasks
C25_Witness ==
  /\ last.step = "handleStartGame"
  /\ ~state.endlessMode
  /\ state.difficulty = "HARD"
  /\ state.difficultyFactors = Factors(FALSE, TRUE, TRUE)
  /\ StartedRequest.count = 7
  /\ StartedRequest.complexityLevel = "advanced"

NoFactors == Factors(FALSE, FALSE, FALSE)

\* a round is being generated or played
RoundStarted ==
  isGenerating \/ state.phase = "PLAYING" \/ \E i \in DOMAIN genCalls : TRUE

\* C26: a selection with no active factor is rejected before a round starts:
\* no round is generated or played with zero active factors, and the
\* resolver gives no timePerTask (no default) for that selection
C26_NoFactorsRejected ==
  /\ RoundStarted => factorCount(state.difficultyFactors) # 0
  /\ \A d \in Difficulties, r \in Randoms :
       calculateGameConfig(d, NoFactors, r).timePerTask \notin Nat

\* the report the fallback has just produced, and its counts
FallbackReported ==
  /\ auditCalls # <<>>
  /\ auditCalls[1].stage \in {"speech", "shown"}
  /\ auditCalls[1].report.source = "mock"

\* the summary the claim gives for n findings, c of them CRITICAL and h HIGH
ClaimedSummary(n, c, h) ==
  IF n = 0
  THEN "Security scan complete. All analyzed code segments follow security best practices. No vulnerabilities detected."
  ELSE "Security scan detected " \o ToString(n)
       \o (IF n = 1 THEN " vulnerability" ELSE " vulnerabilities")
       \o " across ship systems. "
       \o (IF c > 0
           THEN ToString(c) \o " CRITICAL severity "
                \o (IF c = 1 THEN "issue requires" ELSE "issues require")
                \o " immediate attention. "
           ELSE "")
       \o (IF h > 0
           THEN ToString(h) \o " HIGH severity "
                \o (IF h = 1 THEN "issue" ELSE "issues")
                \o " should be addressed promptly. "
           ELSE "")
       \o "Review the detailed findings below for remediation guidance."

\* C27: the fallback's summary names the number of findings (vulnerability or
\* vulnerabilities), then the CRITICAL count if positive ('issue requires' for
\* one, the plural otherwise), then the HIGH count if positive, then the
\* closing sentence; 2 findings with 1 CRITICAL and 0 HIGH read as quoted;
\* no findings give the fixed sentence
C27_FallbackSummaryText ==
  /\ ClaimedSummary(2, 1, 0) =
       "Security scan detected 2 vulnerabilities across ship systems. 1 CRITICAL severity issue requires immediate attention. Review the detailed findings below for remediation guidance."
  /\ FallbackReported =>
       LET findings == auditCalls[1].report.findings
       IN auditCalls[1].report.summary =
            ClaimedSummary(Len(findings), CountSeverity(findings, "CRITICAL"),
                           CountSeverity(findings, "HIGH"))

\* the rank the claim gives the severities in the report view
ClaimedRank(severity) ==
  CASE severity = "CRITICAL" -> 1
    [] severity = "HIGH" -> 2
    [] severity = "MEDIUM" -> 3
    [] severity = "LOW" -> 4

\* where a finding stands in a list of distinct findings
PositionIn(findings, f) == CHOOSE k \in DOMAIN findings : findings[k] = f

\* C28: the findings the report view presents are a permutation of the
\* stored report's findings, ordered CRITICAL, HIGH, MEDIUM, LOW, findings of
\* equal severity in their original order; the stored report is left as it
\* was
C28_FindingsSortedBySeverity ==
  /\ [](last.step = "ReportModal" =>
          LET stored == auditCalls[1].report.findings
              shown == last.sortedFindings
          IN /\ Len(shown) = Len(stored)
             /\ {shown[i] : i \in DOMAIN shown} =
                  {stored[i] : i \in DOMAIN stored}
             /\ \A i, j \in DOMAIN shown :
                  i < j =>
                    /\ ClaimedRank(shown[i].severity)
                         <= ClaimedRank(shown[j].severity)
                    /\ shown[i].severity = shown[j].severity =>
                         PositionIn(stored, shown[i])
                           < PositionIn(stored, shown[j]))
  /\ [][last'.step = "ReportModal" =>
          auditCalls'[1].report = auditCalls[1].report]_vars

\* three findings were reordered: the CRITICAL one moved to the front, the
\* two HIGH ones kept their order
C28_Witness ==
  /\ last.step = "ReportModal"
  /\ Len(auditCalls[1].report.findings) = 3
  /\ auditCalls[1].report.findings[1].severity = "HIGH"
  /\ auditCalls[1].report.findings[2].severity = "CRITICAL"
  /\ auditCalls[1].report.findings[3].severity = "HIGH"
  /\ last.sortedFindings[1].taskId = 2
  /\ last.sortedFindings[2].taskId = 1
  /\ last.sortedFindings[3].taskId = 3

\* the severity the claim gives each vulnerability type
ClaimedSeverity(type) ==
  CASE type \in {"SQL_INJECTION", "RCE", "COMMAND_INJECTION"} -> "CRITICAL"
    [] type \in {"XSS", "SSRF", "PATH_TRAVERSAL", "INSECURE_DESERIALIZATION"}
         -> "HIGH"
    [] type = "SAFE" -> "LOW"

FindingsFor(findings, task) ==
  {i \in DOMAIN findings : findings[i].taskId = task.id}

FairAnswers ==
  {answer \in Answers :
     ~(answer = "vulnerable" /\ ~CurrentTask(state).isVulnerable)}

\* C30: in PLAYING, ANSWER_TASK with an answer that is not a false
\* accusation marks the current task completed if the answer is correct and
\* failed otherwise; on the last task the phase becomes AUDITING with reason
\* completed, also after an incorrect answer; otherwise currentTaskIndex
\* advances by 1, the next task becomes current, timeRemaining is reset to
\* timePerTask and the phase stays PLAYING; and a handleAnswer step that
\* dispatches only this action leaves the session in exactly that state
C30_AnswerAdvancesOrCompletes ==
  /\ [](state.phase = "PLAYING" /\ HasCurrent(state) =>
          \A answer \in FairAnswers :
            LET next == gameReducer(state, Action("ANSWER_TASK", answer))
                idx == state.currentTaskIndex + 1
                correct ==
                  (answer = "vulnerable") = CurrentTask(state).isVulnerable
            IN /\ next.tasks[idx].status =
                    IF correct THEN "completed" ELSE "failed"
               /\ IF idx = Len(state.tasks)
                  THEN /\ next.phase = "AUDITING"
                       /\ next.gameOverReason = "completed"
                  ELSE /\ next.currentTaskIndex = state.currentTaskIndex + 1
                       /\ next.tasks[idx + 1].status = "current"
                       /\ next.timeRemaining = state.timePerTask
                       /\ next.phase = "PLAYING")
  /\ [][(/\ state.phase = "PLAYING"
         /\ HasCurrent(state)
         /\ last'.step = "handleAnswer"
         /\ \E answer \in FairAnswers :
              last'.events = << <<"ANSWER_TASK", answer>> >>) =>
          state' = gameReducer(state, Action("ANSWER_TASK", last'.events[1][2]))
       ]_vars

\* an incorrect answer to the last task has completed the round, after a
\* correct answer to the first task had advanced it
C30_Witness ==
  /\ last.step = "handleAnswer"
  /\ last.events = << <<"ANSWER_TASK", "safe">> >>
  /\ Len(state.tasks) = 2
  /\ state.tasks[1].status = "completed"
  /\ state.tasks[2].isVulnerable
  /\ state.tasks[2].status = "failed"
  /\ state.gameOverReason = "completed"
  /\ state.phase = "AUDITING"

\* C31: in PLAYING, TIME_UP marks the task at currentTaskIndex failed, sets
\* the reason to timeout and moves to AUDITING, and leaves score,
\* totalCorrect, currentTaskIndex, the configuration and every other task as
\* they were; and a step of the timeout effect that dispatches only this
\* action leaves the session in exactly that state
C31_TimeUpFailsCurrentTask ==
  /\ [](state.phase = "PLAYING" /\ HasCurrent(state) =>
          LET next == gameReducer(state, Act("TIME_UP"))
              idx == state.currentTaskIndex + 1
          IN /\ next.tasks[idx].status = "failed"
             /\ next.gameOverReason = "timeout"
             /\ next.phase = "AUDITING"
             /\ next.score = state.score
             /\ next.totalCorrect = state.totalCorrect
             /\ next.currentTaskIndex = state.currentTaskIndex
             /\ RoundConfig(next) = RoundConfig(state)
             /\ next.endlessMode = state.endlessMode
             /\ Len(next.tasks) = Len(state.tasks)
             /\ \A i \in DOMAIN state.tasks :
                  i # idx => next.tasks[i] = state.tasks[i])
  /\ [][(/\ state.phase = "PLAYING"
         /\ HasCurrent(state)
         /\ last'.events = << <<"TIME_UP", "">> >>) =>
          /\ state' = gameReducer(state, Act("TIME_UP"))
          /\ state'.phase = "AUDITING"
          /\ state'.gameOverReason = "timeout"]_vars

\* the countdown of the second task ran out after the first was answered
\* correctly: the second task failed, the first and the score are as they were
C31_Witness ==
  /\ last.step = "flushEffects"
  /\ last.events = << <<"TIME_UP", "">> >>
  /\ Len(state.tasks) = 2
  /\ state.currentTaskIndex = 1
  /\ state.tasks[1].status = "completed"
  /\ state.tasks[2].status = "failed"
  /\ state.score = 100
  /\ state.gameOverReason = "timeout"
  /\ state.phase = "AUDITING"

\* what the session keeps of a round
SessionState(s) ==
  <<s.tasks, s.score, s.totalCorrect, s.totalIncorrect, s.currentTaskIndex,
    s.gameOverReason, s.phase>>

\* C32: an answer is processed only while the phase is PLAYING: in IDLE,
\* LOADING, AUDITING and DEBRIEF, ANSWER_TASK leaves tasks, score, the totals,
\* currentTaskIndex, the reason and the phase unchanged
C32_AnswerOnlyInPlaying ==
  state.phase # "PLAYING" =>
    \A answer \in Answers :
      SessionState(gameReducer(state, Action("ANSWER_TASK", answer)))
        = SessionState(state)

\* C33: the countdown ticks only while its driver is active, that is while
\* the phase is PLAYING: outside PLAYING no tick is applied and a tick leaves
\* the remaining count as it was stored
C33_PausedCountdownKeepsCount ==
  [][state.phase # "PLAYING" =>
       /\ ~Dispatched("TICK_TIMER")'
       /\ last'.step = "tickTimer" =>
            state'.timeRemaining = state.timeRemaining]_vars

\* the stage after an escalation: one step along EASY, MEDIUM, HARD, and HARD
\* from HARD
ClaimedNextStage(stage) ==
  IF stage = "EASY" THEN "MEDIUM" ELSE "HARD"

\* the step is the success of the generator call that an endless run made
\* for its next batch
NextBatchArrives ==
  /\ last'.step = "generatorSucceeds"
  /\ \E i \in DOMAIN genCalls :
       /\ genCalls[i].kind = "endless"
       /\ ~genCalls[i].stale
       /\ genCalls' = RemoveAt(genCalls, i)

\* C35: after a perfect endless batch the next generator request carries the
\* escalated stage as its difficulty, the resolver's complexityLevel for that
\* stage and the active factors, and count 5 whatever affectsTaskCount is;
\* when that call succeeds the new batch is installed with task[0] current
\* and the phase is PLAYING again
C35_NextEndlessBatch ==
  [][/\ PerfectBatchStep =>
          /\ genCalls' # <<>>
          /\ genCalls'[Len(genCalls')].request =
               [difficulty |-> ClaimedNextStage(endlessStage),
                complexityLevel |->
                  ClaimedComplexityLevel(ClaimedNextStage(endlessStage),
                                         state.difficultyFactors),
                count |-> 5]
          /\ state'.phase = "LOADING"
     /\ NextBatchArrives =>
          /\ state'.phase = "PLAYING"
          /\ state'.tasks # <<>>
          /\ state'.currentTaskIndex = 0
          /\ state'.tasks[1].status = "current"
          /\ \A i \in DOMAIN state'.tasks :
               i # 1 => state'.tasks[i].status = "pending"]_vars

\* C36: in an endless run, after each escalation the session's difficulty is
\* the endless stage and timePerTask is the resolver's timePerTask for that
\* stage and the active factors, and the countdown of the new batch starts
\* from it
C36_EscalationSetsDifficulty ==
  [][/\ PerfectBatchStep =>
          /\ state'.difficulty = endlessStage'
          /\ state'.timePerTask =
               ClaimedTimePerTask(endlessStage', state'.difficultyFactors)
     /\ NextBatchArrives =>
          /\ state'.difficulty = endlessStage'
          /\ state'.timeRemaining =
               ClaimedTimePerTask(endlessStage', state'.difficultyFactors)]_vars

\* C37: the phase becomes PLAYING only from LOADING; the response of a
\* generator call that was in flight when the session was reset installs no
\* tasks and does not move the phase to PLAYING
C37_PlayingOnlyFromLoading ==
  [][/\ (state.phase # "PLAYING" /\ state'.phase = "PLAYING") =>
          state.phase = "LOADING"
     /\ last'.step = "lateGeneratorSucceeds" =>
          /\ state'.tasks = state.tasks
          /\ state'.phase = state.phase]_vars

\* C39: in PLAYING the task at currentTaskIndex has status current, every
\* task before it is completed or failed and has its answer, and every task
\* after it is pending
C39_TaskStatusLayout ==
  state.phase = "PLAYING" =>
    /\ HasCurrent(state)
    /\ \A i \in DOMAIN state.tasks :
         IF i = state.currentTaskIndex + 1
         THEN state.tasks[i].status = "current"
         ELSE IF i < state.currentTaskIndex + 1
         THEN /\ state.tasks[i].status \in {"completed", "failed"}
              /\ state.tasks[i].userAnswer \in Answers
         ELSE state.tasks[i].status = "pending"

\* C40: gameOverReason is defined exactly when the phase is AUDITING or
\* DEBRIEF, and undefined in IDLE, LOADING and PLAYING
C40_ReasonIffRoundOver ==
  (state.gameOverReason # Undefined) <=> (state.phase \in {"AUDITING", "DEBRIEF"})

\* C34: once the player has continued from the round-end overlay, the
\* session eventually is in DEBRIEF with an audit report stored, whatever the
\* reason the round ended with
C34_ContinueLeadsToDebrief ==
  (last.step = "handleContinueFromEmergency")
    ~> (state.phase = "DEBRIEF" /\ state.auditReport.defined)

\* C38: a session in PLAYING eventually is out of PLAYING; an answer ends
\* the round or advances currentTaskIndex by one, within the tasks, and the
\* countdown at 0 brings the timeout transition
C38_PlayingEnds ==
  /\ (state.phase = "PLAYING") ~> (state.phase # "PLAYING")
  /\ [][/\ (state.phase = "PLAYING" /\ last'.step = "handleAnswer") =>
             \/ state'.phase # "PLAYING"
             \/ /\ state'.currentTaskIndex = state.currentTaskIndex + 1
                /\ state'.currentTaskIndex < Len(state'.tasks)
        /\ (timeoutFires(state) /\ last'.step \in {"flushEffects", "tickTimer"}) =>
             /\ Dispatched("TIME_UP")'
             /\ state'.phase = "AUDITING"]_vars

\* a round of two tasks left PLAYING by the timeout of its second task, after
\* the answer to the first had advanced it
C38_Witness ==
  /\ last.step = "flushEffects"
  /\ last.from = "PLAYING"
  /\ Dispatched("TIME_UP")
  /\ state.currentTaskIndex = 1
  /\ state.tasks[1].status = "completed"
  /\ state.timeRemaining = 0
  /\ state.phase = "AUDITING"

====
